---- MODULE Spec2Model ----
(***************************************************************************)
(* The n2n supernode (sn.c): the edge directory, the datagram dispatcher   *)
(* process_udp, the management reply, the federation (SNM) state machine   *)
(* and the select loop run_loop.                                           *)
(*                                                                         *)
(* Time is counted in ticks; one tick is the longest time one select()     *)
(* may block.  A datagram is a sequence of decoded wire fields, in wire    *)
(* order: version, ttl, packet code, flags, community, then the payload    *)
(* fields of the packet code, then the opaque tail.                        *)
(***************************************************************************)
EXTENDS Integers, Sequences, FiniteSets, TLC

(* ------------------------------ bounds -------------------------------- *)

\* The clock stops advancing at MaxTime.
MaxTime == 2

\* The send counters errors + fwd + broadcast stop at MaxEvents.
MaxEvents == 2

\* The counter reg_super stops at MaxRegs.
MaxRegs == 2

\* The clock of the runs with few edges stops advancing at MaxTimeLong.
MaxTimeLong == 3

(* ----------------------------- data sets ------------------------------ *)

Communities == {"net1", "net2"}

\* A MAC is its first octet and a tag standing for the remaining five.
MacA == <<170, 1>>
MacB == <<170, 2>>
MacC == <<170, 3>>
MacMulti == <<1, 0>>
MacBcast == <<255, 255>>

\* The MACs that register; MacC only sends.
EdgeMacs == {MacA, MacB}

\* struct sockaddr_in of a datagram's sender: sin_port is in network order.
Senders == {[sin_addr |-> "192.0.2.10", sin_port |-> 16540],
            [sin_addr |-> "192.0.2.11", sin_port |-> 16796]}

Cookies == {"ck1", "ck2"}

\* The opaque Ethernet frame carried by a PACKET.
Payload == <<"eth1", "eth2">>

(* ------------------------------ wire codec ---------------------------- *)

N2N_PKT_VERSION == 2

\* ntohs / htons on a little-endian host: swap the two octets.
ntohs(p) == (p % 256) * 256 + (p \div 256)

htons(p) == (p % 256) * 256 + (p \div 256)

SubSeqFrom(s, i) == SubSeq(s, i, Len(s))

\* decode_common: version, ttl, pc, flags, community; fails on a short buffer.
decode_common(buf) ==
    IF Len(buf) < 5
    THEN [ok |-> FALSE, idx |-> 0,
          cmn |-> [ttl |-> 0, pc |-> "NONE", flags |-> {}, community |-> "none"]]
    ELSE [ok |-> TRUE, idx |-> 5,
          cmn |-> [ttl |-> buf[2], pc |-> buf[3], flags |-> buf[4],
                   community |-> buf[5]]]

encode_common(cmn) ==
    <<N2N_PKT_VERSION, cmn.ttl, cmn.pc, cmn.flags, cmn.community>>

\* init_cmn: a fresh header of the default TTL.
N2N_DEFAULT_TTL == 2

init_cmn(pc, flags, community) ==
    [ttl |-> N2N_DEFAULT_TTL, pc |-> pc, flags |-> flags, community |-> community]

NoSock == [family |-> "AF_INVALID", port |-> 0, addr |-> "0.0.0.0"]

\* decode_PACKET: srcMac, dstMac, and the inline socket when SOCKET is set.
decode_PACKET(cmn, buf, idx) ==
    IF "SOCKET" \in cmn.flags
    THEN [pkt |-> [srcMac |-> buf[idx + 1], dstMac |-> buf[idx + 2],
                   sock |-> buf[idx + 3]],
          idx |-> idx + 3]
    ELSE [pkt |-> [srcMac |-> buf[idx + 1], dstMac |-> buf[idx + 2],
                   sock |-> NoSock],
          idx |-> idx + 2]

encode_PACKET(cmn, pkt) ==
    encode_common([cmn EXCEPT !.pc = "PACKET"])
      \o <<pkt.srcMac, pkt.dstMac>>
      \o (IF "SOCKET" \in cmn.flags THEN <<pkt.sock>> ELSE <<>>)

\* decode_REGISTER: cookie, srcMac, dstMac, and the inline socket.
decode_REGISTER(cmn, buf, idx) ==
    IF "SOCKET" \in cmn.flags
    THEN [reg |-> [cookie |-> buf[idx + 1], srcMac |-> buf[idx + 2],
                   dstMac |-> buf[idx + 3], sock |-> buf[idx + 4]],
          idx |-> idx + 4]
    ELSE [reg |-> [cookie |-> buf[idx + 1], srcMac |-> buf[idx + 2],
                   dstMac |-> buf[idx + 3], sock |-> NoSock],
          idx |-> idx + 3]

encode_REGISTER(cmn, reg) ==
    encode_common([cmn EXCEPT !.pc = "REGISTER"])
      \o <<reg.cookie, reg.srcMac, reg.dstMac>>
      \o (IF "SOCKET" \in cmn.flags THEN <<reg.sock>> ELSE <<>>)

\* decode_REGISTER_SUPER: cookie, edgeMac (the auth block is not read).
decode_REGISTER_SUPER(cmn, buf, idx) ==
    [reg |-> [cookie |-> buf[idx + 1], edgeMac |-> buf[idx + 2]],
     idx |-> idx + 2]

encode_REGISTER_SUPER(cmn, reg) ==
    encode_common([cmn EXCEPT !.pc = "REGISTER_SUPER"])
      \o <<reg.cookie, reg.edgeMac>>

encode_REGISTER_SUPER_ACK(cmn, ack) ==
    encode_common([cmn EXCEPT !.pc = "REGISTER_SUPER_ACK"])
      \o <<ack.cookie, ack.edgeMac, ack.lifetime, ack.sock, ack.num_sn>>
      \o ack.sn_bak

\* The first octet's low bit, or the all-ones address.
is_multi_broadcast_mac(mac) == (mac[1] % 2 = 1) \/ mac = MacBcast

(* --------------------------- edge directory --------------------------- *)

\* struct peer_info
PeerInfo(community, mac, sock, seen) ==
    [community_name |-> community, mac_addr |-> mac, sock |-> sock,
     last_seen |-> seen]

\* Position of the first record of the list with this MAC, 0 when none.
find_peer_by_mac(list, mac) ==
    IF \E i \in 1..Len(list) : list[i].mac_addr = mac
    THEN CHOOSE i \in 1..Len(list) :
            /\ list[i].mac_addr = mac
            /\ \A j \in 1..(i - 1) : list[j].mac_addr # mac
    ELSE 0

\* Zero when the two sockets are equivalent.
sock_equal(a, b) == IF a = b THEN 0 ELSE 1

\* update_edge with the sense of the sock_equal test inverted: a known edge
\* is overwritten only when its socket is the same.
update_edge_inverted(list, edgeMac, community, sender_sock, now) ==
    LET scan == find_peer_by_mac(list, edgeMac) IN
    IF scan = 0
    THEN <<PeerInfo(community, edgeMac, sender_sock, now)>> \o list
    ELSE IF community # list[scan].community_name
              \/ 0 = sock_equal(sender_sock, list[scan].sock)
         THEN [list EXCEPT ![scan] = PeerInfo(community, edgeMac, sender_sock, now)]
         ELSE [list EXCEPT ![scan].last_seen = now]

\* update_edge that takes an edge seen from another socket for a new one.
update_edge_dup(list, edgeMac, community, sender_sock, now) ==
    LET scan == find_peer_by_mac(list, edgeMac) IN
    IF scan = 0 \/ (scan # 0 /\ list[scan].sock # sender_sock)
    THEN <<PeerInfo(community, edgeMac, sender_sock, now)>> \o list
    ELSE [list EXCEPT ![scan] = PeerInfo(community, edgeMac, sender_sock, now)]

\* update_edge that leaves last_seen alone when the community and the socket
\* of a known edge are unchanged.
update_edge_stale(list, edgeMac, community, sender_sock, now) ==
    LET scan == find_peer_by_mac(list, edgeMac) IN
    IF scan = 0
    THEN <<PeerInfo(community, edgeMac, sender_sock, now)>> \o list
    ELSE IF community # list[scan].community_name
              \/ 0 # sock_equal(sender_sock, list[scan].sock)
         THEN [list EXCEPT ![scan] = PeerInfo(community, edgeMac, sender_sock, now)]
         ELSE list

\* update_edge: create the record at the head of the list, or overwrite the
\* community and socket of the known one; last_seen is always set to now.
update_edge(list, edgeMac, community, sender_sock, now) ==
    LET scan == find_peer_by_mac(list, edgeMac) IN
    IF scan = 0
    THEN <<PeerInfo(community, edgeMac, sender_sock, now)>> \o list
    ELSE IF community # list[scan].community_name
              \/ 0 # sock_equal(sender_sock, list[scan].sock)
         THEN [list EXCEPT ![scan] = PeerInfo(community, edgeMac, sender_sock, now)]
         ELSE [list EXCEPT ![scan].last_seen = now]

\* purge_peer_list: drop the records last seen before purge_before.
purge_peer_list(list, purge_before) ==
    SelectSeq(list, LAMBDA r : r.last_seen >= purge_before)

\* The purge horizon, in ticks.
REGISTRATION_TIMEOUT == 1

\* The lifetime advertised in REGISTER_SUPER_ACK on the model's clock: it is
\* no longer than the purge horizon.
LifetimeTicks == REGISTRATION_TIMEOUT

\* purge_expired_registrations: drop the records with now - last_seen over
\* the horizon.
purge_expired_registrations(list, now) ==
    purge_peer_list(list, now - REGISTRATION_TIMEOUT)

(* ------------------------------- sending ------------------------------ *)

\* sendto() outcomes per destination: the whole datagram, a short write, an
\* error.
AllSent == [s \in Senders |-> "full"]

SendOutcomes ==
    {AllSent,
     [s \in Senders |-> IF s.sin_addr = "192.0.2.10" THEN "short" ELSE "full"],
     [s \in Senders |-> IF s.sin_addr = "192.0.2.11" THEN "error" ELSE "full"]}

\* The sockaddr_in sendto_sock builds from a peer's n2n_sock_t.
SockAddrOf(sock) == [sin_addr |-> sock.addr, sin_port |-> htons(sock.port)]

\* One sendto() call: the socket used, the destination, the bytes, the result.
SendRec(via, to, buf, out) ==
    [via |-> via, to |-> to, buf |-> buf, res |-> out[to]]

sendto_sock(buf, sock, out) == SendRec("edge", SockAddrOf(sock), buf, out)

(* ----------------------------- forwarding ----------------------------- *)

\* try_broadcast that does not leave the source MAC out.
try_broadcast_all(list, st, cmn, srcMac, pktbuf, out) ==
    LET to == SelectSeq(list, LAMBDA r : r.community_name = cmn.community)
        snd == [i \in 1..Len(to) |-> sendto_sock(pktbuf, to[i].sock, out)]
        bad == Cardinality({i \in 1..Len(to) : snd[i].res # "full"})
    IN [stats |-> [st EXCEPT !.errors = @ + bad,
                             !.broadcast = @ + (Len(to) - bad)],
        sent |-> snd]

\* try_broadcast that counts a broadcast once per frame, not per recipient.
try_broadcast_once(list, st, cmn, srcMac, pktbuf, out) ==
    LET to == SelectSeq(list, LAMBDA r : r.community_name = cmn.community
                                          /\ r.mac_addr # srcMac)
        snd == [i \in 1..Len(to) |-> sendto_sock(pktbuf, to[i].sock, out)]
        bad == Cardinality({i \in 1..Len(to) : snd[i].res # "full"})
    IN [stats |-> [st EXCEPT !.errors = @ + bad,
                             !.broadcast = @ + (IF Len(to) > bad THEN 1 ELSE 0)],
        sent |-> snd]

\* try_broadcast: the same datagram to every record of the community except
\* the one of srcMac, in list order.
try_broadcast(list, st, cmn, srcMac, pktbuf, out) ==
    LET to == SelectSeq(list, LAMBDA r : r.community_name = cmn.community
                                          /\ r.mac_addr # srcMac)
        snd == [i \in 1..Len(to) |-> sendto_sock(pktbuf, to[i].sock, out)]
        bad == Cardinality({i \in 1..Len(to) : snd[i].res # "full"})
    IN [stats |-> [st EXCEPT !.errors = @ + bad,
                             !.broadcast = @ + (Len(to) - bad)],
        sent |-> snd]

\* try_forward that broadcasts to the community when the MAC is unknown, as
\* its header comment describes.
try_forward_fallback(list, st, cmn, dstMac, pktbuf, out) ==
    LET scan == find_peer_by_mac(list, dstMac) IN
    IF scan # 0
    THEN LET s == sendto_sock(pktbuf, list[scan].sock, out) IN
         [stats |-> IF s.res = "full"
                    THEN [st EXCEPT !.fwd = @ + 1]
                    ELSE [st EXCEPT !.errors = @ + 1],
          sent |-> <<s>>]
    ELSE try_broadcast(list, st, cmn, dstMac, pktbuf, out)

\* try_forward: one send to the record of dstMac, none when it is unknown.
try_forward(list, st, cmn, dstMac, pktbuf, out) ==
    LET scan == find_peer_by_mac(list, dstMac) IN
    IF scan # 0
    THEN LET s == sendto_sock(pktbuf, list[scan].sock, out) IN
         [stats |-> IF s.res = "full"
                    THEN [st EXCEPT !.fwd = @ + 1]
                    ELSE [st EXCEPT !.errors = @ + 1],
          sent |-> <<s>>]
    ELSE [stats |-> st, sent |-> <<>>]

(* ------------------------------ process_udp --------------------------- *)

\* SenderSock without the ntohs of the port.
SenderSock_raw(sender_sock) ==
    [family |-> "AF_INET", port |-> sender_sock.sin_port,
     addr |-> sender_sock.sin_addr]

\* The n2n_sock_t the dispatcher builds from the sender's sockaddr_in.
SenderSock(sender_sock) ==
    [family |-> "AF_INET", port |-> ntohs(sender_sock.sin_port),
     addr |-> sender_sock.sin_addr]

\* The TTL test off by one.
TtlExpired_neg(cmn) == cmn.ttl < 0

\* cmn.ttl < 1: the datagram is dropped.
TtlExpired(cmn) == cmn.ttl < 1

\* --(cmn.ttl) on a uint8_t.
DecrementTtl(cmn) == [cmn EXCEPT !.ttl = (@ - 1) % 256]

\* PacketRecBuf that keeps an inline socket the edge wrote itself.
PacketRecBuf_keepsock(cmn, from_supernode, pkt, udp_buf, idx, sender_sock) ==
    IF ~from_supernode
    THEN LET cmn2 == [cmn EXCEPT !.flags = @ \cup {"SOCKET", "FROM_SUPERNODE"}]
             pkt2 == IF "SOCKET" \in cmn.flags THEN pkt
                     ELSE [pkt EXCEPT !.sock = SenderSock(sender_sock)]
         IN encode_PACKET(cmn2, pkt2) \o SubSeqFrom(udp_buf, idx + 1)
    ELSE udp_buf

\* The bytes a PACKET is forwarded as: re-encoded with the sender's socket
\* inline when it does not come from a supernode, else the received buffer.
PacketRecBuf(cmn, from_supernode, pkt, udp_buf, idx, sender_sock) ==
    IF ~from_supernode
    THEN LET cmn2 == [cmn EXCEPT !.flags = @ \cup {"SOCKET", "FROM_SUPERNODE"}]
             pkt2 == [pkt EXCEPT !.sock = SenderSock(sender_sock)]
         IN encode_PACKET(cmn2, pkt2) \o SubSeqFrom(udp_buf, idx + 1)
    ELSE udp_buf

\* The bytes a unicast REGISTER is forwarded as.
RegisterRecBuf(cmn, reg, udp_buf, idx, sender_sock) ==
    IF "FROM_SUPERNODE" \in cmn.flags
    THEN LET cmn2 == [cmn EXCEPT !.flags = @ \cup {"SOCKET", "FROM_SUPERNODE"}]
             reg2 == [reg EXCEPT !.sock = SenderSock(sender_sock)]
         IN encode_REGISTER(cmn2, reg2) \o SubSeqFrom(udp_buf, idx + 1)
    ELSE udp_buf

\* reg_lifetime
reg_lifetime == 120

\* comm_find: position of the community in a federation list, 0 when none.
comm_find(list, name) ==
    IF \E i \in 1..Len(list) : list[i].name = name
    THEN CHOOSE i \in 1..Len(list) :
            /\ list[i].name = name
            /\ \A j \in 1..(i - 1) : list[j].name # name
    ELSE 0

\* process_PACKET that takes a PACKET for a sign of life of its source and
\* refreshes the source's record.
process_PACKET_refresh(list, st, cmn, from_supernode, sender_sock, udp_buf, idx, now, out) ==
    LET d == decode_PACKET(cmn, udp_buf, idx)
        unicast == ~is_multi_broadcast_mac(d.pkt.dstMac)
        rec_buf == PacketRecBuf(cmn, from_supernode, d.pkt, udp_buf, d.idx, sender_sock)
        st1 == [st EXCEPT !.last_fwd = now]
        r == IF unicast
             THEN try_forward(list, st1, cmn, d.pkt.dstMac, rec_buf, out)
             ELSE try_broadcast(list, st1, cmn, d.pkt.srcMac, rec_buf, out)
        scan == find_peer_by_mac(list, d.pkt.srcMac)
    IN [edges |-> IF scan = 0 THEN list ELSE [list EXCEPT ![scan].last_seen = now],
        stats |-> r.stats, sent |-> r.sent, rc |-> 0]

\* The MSG_TYPE_PACKET branch.
process_PACKET(list, st, cmn, from_supernode, sender_sock, udp_buf, idx, now, out) ==
    LET d == decode_PACKET(cmn, udp_buf, idx)
        unicast == ~is_multi_broadcast_mac(d.pkt.dstMac)
        rec_buf == PacketRecBuf(cmn, from_supernode, d.pkt, udp_buf, d.idx, sender_sock)
        st1 == [st EXCEPT !.last_fwd = now]
        r == IF unicast
             THEN try_forward(list, st1, cmn, d.pkt.dstMac, rec_buf, out)
             ELSE try_broadcast(list, st1, cmn, d.pkt.srcMac, rec_buf, out)
    IN [edges |-> list, stats |-> r.stats, sent |-> r.sent, rc |-> 0]

\* process_REGISTER that broadcasts a REGISTER for a multicast address.
process_REGISTER_bcast(list, st, cmn, sender_sock, udp_buf, idx, now, out) ==
    LET d == decode_REGISTER(cmn, udp_buf, idx)
        unicast == ~is_multi_broadcast_mac(d.reg.dstMac)
        st1 == [st EXCEPT !.last_fwd = now]
        rec_buf == RegisterRecBuf(cmn, d.reg, udp_buf, d.idx, sender_sock)
        r == IF unicast
             THEN try_forward(list, st1, cmn, d.reg.dstMac, rec_buf, out)
             ELSE try_broadcast(list, st1, cmn, d.reg.srcMac, rec_buf, out)
    IN [edges |-> list, stats |-> r.stats, sent |-> r.sent, rc |-> 0]

\* The MSG_TYPE_REGISTER branch.
process_REGISTER(list, st, cmn, sender_sock, udp_buf, idx, now, out) ==
    LET d == decode_REGISTER(cmn, udp_buf, idx)
        unicast == ~is_multi_broadcast_mac(d.reg.dstMac)
        st1 == [st EXCEPT !.last_fwd = now]
    IN IF unicast
       THEN LET rec_buf == RegisterRecBuf(cmn, d.reg, udp_buf, d.idx, sender_sock)
                r == try_forward(list, st1, cmn, d.reg.dstMac, rec_buf, out)
            IN [edges |-> list, stats |-> r.stats, sent |-> r.sent, rc |-> 0]
       ELSE [edges |-> list, stats |-> st1, sent |-> <<>>, rc |-> 0]

\* The MSG_TYPE_REGISTER_SUPER branch. multi: the build with
\* N2N_MULTIPLE_SUPERNODES; comms: communities.head.
process_REGISTER_SUPER(multi, comms, list, st, cmn, sender_sock, udp_buf, idx, now, out) ==
    LET d == decode_REGISTER_SUPER(cmn, udp_buf, idx)
        st1 == [st EXCEPT !.last_reg_super = now, !.reg_super = @ + 1]
        cmn2 == init_cmn("REGISTER_SUPER_ACK", {"SOCKET", "FROM_SUPERNODE"},
                         cmn.community)
        ci == IF multi THEN comm_find(comms, cmn.community) ELSE 0
        ack == [cookie |-> d.reg.cookie, edgeMac |-> d.reg.edgeMac,
                lifetime |-> reg_lifetime, sock |-> SenderSock(sender_sock),
                num_sn |-> IF ci # 0 THEN comms[ci].sn_num ELSE 0,
                sn_bak |-> IF ci # 0 THEN comms[ci].sn_sock ELSE <<>>]
    IN [edges |-> update_edge(list, d.reg.edgeMac, cmn.community, ack.sock, now),
        stats |-> st1,
        sent |-> <<SendRec("edge", sender_sock,
                           encode_REGISTER_SUPER_ACK(cmn2, ack), out)>>,
        rc |-> 0]

\* process_udp: the result of handling one datagram of the edge socket.
process_udp(multi, comms, list, st, sender_sock, udp_buf, now, out) ==
    LET c == decode_common(udp_buf)
        from_supernode == "FROM_SUPERNODE" \in c.cmn.flags
        same == [edges |-> list, stats |-> st, sent |-> <<>>, rc |-> 0]
    IN IF ~c.ok THEN [same EXCEPT !.rc = -1]
       ELSE IF TtlExpired(c.cmn) THEN same
       ELSE LET cmn == DecrementTtl(c.cmn) IN
            CASE cmn.pc = "PACKET" ->
                   process_PACKET(list, st, cmn, from_supernode, sender_sock,
                                  udp_buf, c.idx, now, out)
              [] cmn.pc = "REGISTER" ->
                   process_REGISTER(list, st, cmn, sender_sock, udp_buf, c.idx,
                                    now, out)
              [] cmn.pc = "REGISTER_SUPER" ->
                   process_REGISTER_SUPER(multi, comms, list, st, cmn, sender_sock,
                                          udp_buf, c.idx, now, out)
              [] OTHER -> same

(* ------------------------------ process_mgmt -------------------------- *)

\* The reply text without its separator line.
MgmtReply_noseparator(list, st, start, now) ==
    <<<<"uptime", now - start>>,
      <<"edges", Len(list)>>,
      <<"errors", st.errors>>,
      <<"reg_sup", st.reg_super>>,
      <<"reg_nak", st.reg_super_nak>>,
      <<"fwd", st.fwd>>,
      <<"broadcast", st.broadcast>>,
      <<"last fwd", now - st.last_fwd>>,
      <<"last reg", now - st.last_reg_super>>>>

\* The reply text, one element per line.
MgmtReply(list, st, start, now) ==
    <<"----------------",
      <<"uptime", now - start>>,
      <<"edges", Len(list)>>,
      <<"errors", st.errors>>,
      <<"reg_sup", st.reg_super>>,
      <<"reg_nak", st.reg_super_nak>>,
      <<"fwd", st.fwd>>,
      <<"broadcast", st.broadcast>>,
      <<"last fwd", now - st.last_fwd>>,
      <<"last reg", now - st.last_reg_super>>>>

\* process_mgmt: one reply to the sender; a send of r <= 0 counts an error.
process_mgmt(list, st, start, sender_sock, now, out) ==
    LET s == SendRec("mgmt", sender_sock, MgmtReply(list, st, start, now), out) IN
    [stats |-> IF s.res = "error" THEN [st EXCEPT !.errors = @ + 1] ELSE st,
     sent |-> <<s>>]

(* ------------------------------ federation ---------------------------- *)

\* sss->sn_port, the -s option.
sn_port == 5646

LocalAddr == "198.51.100.9"

Sn1 == [family |-> "AF_INET", port |-> 5646, addr |-> "198.51.100.1"]
Sn2 == [family |-> "AF_INET", port |-> 5646, addr |-> "198.51.100.2"]
SnLoop == [family |-> "AF_INET", port |-> 5646, addr |-> "127.0.0.1"]
SnSelf == [family |-> "AF_INET", port |-> 5646, addr |-> LocalAddr]
SnEdge == [family |-> "AF_INET", port |-> 40000, addr |-> "192.0.2.10"]

N2N_SUPER_DISCOVERY_INTERVAL == 1
N2N_MAX_COMM_PER_SN == 2
N2N_MIN_SN_PER_COMM == 1

\* struct comm_info: sn_sock holds the sn_num supernodes hosting the community.
CommInfo(name, socks) == [name |-> name, sn_num |-> Len(socks), sn_sock |-> socks]

SeqHas(seq, x) == \E i \in 1..Len(seq) : seq[i] = x

\* An address of 127.0.0.0/8, or the local address on the supernode port.
sn_is_loopback(sn, port) ==
    sn.addr = "127.0.0.1" \/ (sn.addr = LocalAddr /\ sn.port = port)

\* update_supernodes: a new address goes to the head; the count of additions.
update_supernodes(list, sn) ==
    IF SeqHas(list, sn)
    THEN [list |-> list, added |-> 0]
    ELSE [list |-> <<sn>> \o list, added |-> 1]

RECURSIVE update_supernodes_all(_, _)
update_supernodes_all(list, sns) ==
    IF sns = <<>>
    THEN [list |-> list, added |-> 0]
    ELSE LET u == update_supernodes(list, Head(sns))
             r == update_supernodes_all(u.list, Tail(sns))
         IN [list |-> r.list, added |-> u.added + r.added]

\* add_new_community: a community not yet in the list goes to its head.
add_new_community(head, name) ==
    IF comm_find(head, name) # 0
    THEN [head |-> head, added |-> 0]
    ELSE [head |-> <<CommInfo(name, <<>>)>> \o head, added |-> 1]

\* One community of a received list merged into the list: its supernodes
\* are added to the known ones.
MergeComm(head, ci) ==
    LET i == comm_find(head, ci.name) IN
    IF i = 0
    THEN <<ci>> \o head
    ELSE LET more == SelectSeq(ci.sn_sock, LAMBDA a : ~SeqHas(head[i].sn_sock, a))
         IN [head EXCEPT ![i] = CommInfo(ci.name, head[i].sn_sock \o more)]

RECURSIVE MergeComms(_, _)
MergeComms(head, cis) ==
    IF cis = <<>> THEN head ELSE MergeComms(MergeComm(head, Head(cis)), Tail(cis))

\* process_snm_rsp: the supernodes and communities of an INFO response are
\* merged in; the result counts the supernodes that are new.
process_snm_rsp(sns, comms, rsp) ==
    LET u == update_supernodes_all(sns, rsp.sns) IN
    [supernodes |-> u.list,
     communities |-> [comms EXCEPT !.head = MergeComms(@, rsp.comms)],
     sn_num |-> u.added]

\* process_snm_adv: the sender is recorded as a host of each advertised
\* community; the result tells whether the community list changed.
process_snm_adv(sns, comms, sender_sn, adv) ==
    LET cis == [i \in 1..Len(adv.comms) |-> CommInfo(adv.comms[i], <<sender_sn>>)]
        head == MergeComms(comms.head, cis)
    IN [supernodes |-> sns,
        communities |-> [comms EXCEPT !.head = head],
        updated |-> IF head # comms.head THEN 1 ELSE 0]

\* The federation frames: type, flags, sequence number, payload.
SnmFrame(type, flags, seq, payload) == <<type, flags, seq, payload>>

decode_SNM_hdr(buf) ==
    IF Len(buf) < 3
    THEN [ok |-> FALSE, hdr |-> [type |-> "NONE", flags |-> {}, seq_num |-> 0]]
    ELSE [ok |-> TRUE, hdr |-> [type |-> buf[1], flags |-> buf[2], seq_num |-> buf[3]]]

SnSend(to, buf) == [via |-> "sn", to |-> to, buf |-> buf, res |-> "full"]

\* ++sss->seq_num on an unsigned int (two bits here).
NextSeq(n) == (n + 1) % 4

\* send_snm_req: the sequence number advances even when the loopback test
\* drops the request.
send_snm_req(seq, sn, req_communities, names) ==
    LET n == NextSeq(seq)
        flags == {"S"} \cup (IF req_communities THEN {"C"}
                             ELSE IF names # <<>> THEN {"N"} ELSE {})
    IN [seq_num |-> n,
        sent |-> IF sn_is_loopback(sn, sn_port) THEN <<>>
                 ELSE <<SnSend(sn, SnmFrame("REQ", flags, n,
                                            [comms |-> IF req_communities THEN <<>>
                                                       ELSE names]))>>]

\* send_snm_req to the first count entries of the list.
RECURSIVE send_req_to_first(_, _, _, _, _)
send_req_to_first(seq, list, count, req_communities, names) ==
    IF list = <<>> \/ count = 0
    THEN [seq_num |-> seq, sent |-> <<>>]
    ELSE LET one == send_snm_req(seq, Head(list), req_communities, names)
             rest == send_req_to_first(one.seq_num, Tail(list), count - 1,
                                       req_communities, names)
         IN [seq_num |-> rest.seq_num, sent |-> one.sent \o rest.sent]

send_req_to_all_supernodes(seq, list, req_communities, names) ==
    send_req_to_first(seq, list, Len(list), req_communities, names)

\* The names of a community list.
CommNames(list) == [i \in 1..Len(list) |-> list[i].name]

\* send_snm_adv without the loopback test.
send_snm_adv_any(state, sn, comm_list) ==
    <<SnSend(sn, SnmFrame("ADV",
                          {"S"} \cup (IF state # "READY" THEN {"A"} ELSE {}),
                          0, [comms |-> CommNames(comm_list)]))>>

\* send_snm_adv: the A flag is set while the state is not READY.
send_snm_adv(state, sn, comm_list) ==
    IF sn_is_loopback(sn, sn_port)
    THEN <<>>
    ELSE <<SnSend(sn, SnmFrame("ADV",
                               {"S"} \cup (IF state # "READY" THEN {"A"} ELSE {}),
                               0, [comms |-> CommNames(comm_list)]))>>

RECURSIVE send_adv_to_each(_, _, _)
send_adv_to_each(state, list, comm_list) ==
    IF list = <<>> THEN <<>>
    ELSE send_snm_adv(state, Head(list), comm_list)
           \o send_adv_to_each(state, Tail(list), comm_list)

\* advertise_all: nothing is sent when no community is hosted.
advertise_all(state, sns, comms) ==
    IF comms.head = <<>> THEN <<>> ELSE send_adv_to_each(state, sns, comms.head)

advertise_community_to_all(state, sns, name) ==
    send_adv_to_each(state, sns, <<CommInfo(name, <<>>)>>)

\* send_snm_rsp: the INFO response lists the known supernodes and communities.
send_snm_rsp(sock, sns, comms, hdr) ==
    <<SnSend(sock, SnmFrame("RSP", {"S"}, hdr.seq_num,
                            [sns |-> sns, comms |-> comms.head]))>>

\* The queried communities with fewer than N2N_MIN_SN_PER_COMM hosts join
\* the list while fewer than N2N_MAX_COMM_PER_SN are hosted.
RECURSIVE AddQueried(_, _, _)
AddQueried(head, comm_num, queried) ==
    IF ~(comm_num < N2N_MAX_COMM_PER_SN /\ queried # <<>>)
    THEN head
    ELSE LET ci == Head(queried) IN
         IF ci.sn_num < N2N_MIN_SN_PER_COMM
         THEN LET a == add_new_community(head, ci.name) IN
              AddQueried(a.head, comm_num + a.added, Tail(queried))
         ELSE AddQueried(head, comm_num, Tail(queried))

\* communities_discovery that does not wait for the discovery interval.
communities_discovery_early(state, sns, comms, start, nowTime) ==
    IF state = "DISCOVERY"
    THEN LET c2 == [comms EXCEPT
                      !.head = AddQueried(comms.persist, Len(comms.persist), comms.head)]
         IN [state |-> "READY", communities |-> c2,
             sent |-> advertise_all(state, sns, c2)]
    ELSE [state |-> state, communities |-> comms, sent |-> <<>>]

\* communities_discovery: after the discovery interval the persisted
\* communities and the admitted queried ones are advertised and the state
\* becomes READY.
communities_discovery(state, sns, comms, start, nowTime) ==
    IF nowTime - start < N2N_SUPER_DISCOVERY_INTERVAL
    THEN [state |-> state, communities |-> comms, sent |-> <<>>]
    ELSE IF state = "DISCOVERY"
    THEN LET c2 == [comms EXCEPT
                      !.head = AddQueried(comms.persist, Len(comms.persist), comms.head)]
         IN [state |-> "READY", communities |-> c2,
             sent |-> advertise_all(state, sns, c2)]
    ELSE [state |-> state, communities |-> comms, sent |-> <<>>]

\* The n2n_sock_t of the sender of a federation datagram.
SnSenderSock(sender_sock) ==
    [family |-> "AF_INET", port |-> ntohs(sender_sock.sin_port),
     addr |-> sender_sock.sin_addr]

\* process_REQ that answers whatever the discovery state is.
process_REQ_unguarded(state, sns, comms, seq, sender_sn, hdr, req) ==
    LET same == [state |-> state, supernodes |-> sns, communities |-> comms,
                 seq_num |-> seq, sent |-> <<>>, rc |-> 0]
        merged == IF "E" \notin hdr.flags
                  THEN update_supernodes(sns, sender_sn).list ELSE sns
    IN IF "A" \in hdr.flags
       THEN [same EXCEPT !.sent = send_snm_adv(state, sender_sn, <<>>),
                         !.supernodes = merged]
       ELSE [same EXCEPT !.sent = send_snm_rsp(sender_sn, sns, comms, hdr),
                         !.supernodes = merged]

\* The SNM_TYPE_REQ_LIST_MSG branch.
process_REQ(state, sns, comms, seq, sender_sn, hdr, req) ==
    LET same == [state |-> state, supernodes |-> sns, communities |-> comms,
                 seq_num |-> seq, sent |-> <<>>, rc |-> 0]
        merged == IF "E" \notin hdr.flags
                  THEN update_supernodes(sns, sender_sn).list ELSE sns
    IN IF state # "READY" THEN [same EXCEPT !.rc = -1]
       ELSE IF "A" \in hdr.flags
       THEN IF "E" \in hdr.flags
            THEN IF Len(req.comms) # 1 THEN [same EXCEPT !.rc = -1]
                 ELSE LET a == add_new_community(comms.head, req.comms[1])
                          c2 == [comms EXCEPT !.head = a.head]
                      IN [same EXCEPT
                            !.communities = c2,
                            !.sent = (IF a.added # 0
                                      THEN advertise_community_to_all(state, sns,
                                                                      req.comms[1])
                                      ELSE <<>>)
                                     \o send_snm_adv(state, sender_sn, <<>>),
                            !.supernodes = merged]
            ELSE [same EXCEPT !.sent = send_snm_adv(state, sender_sn, <<>>),
                              !.supernodes = merged]
       ELSE [same EXCEPT !.sent = send_snm_rsp(sender_sn, sns, comms, hdr),
                         !.supernodes = merged]

\* process_RSP that takes a response received while READY for the start of
\* a new discovery.
process_RSP_restart(state, sns, comms, seq, sender_sn, hdr, rsp) ==
    LET p == process_snm_rsp(sns, comms, rsp)
        q == send_req_to_first(seq, p.supernodes, p.sn_num, TRUE, <<>>)
    IN [state |-> "DISCOVERY", supernodes |-> p.supernodes,
        communities |-> p.communities, seq_num |-> q.seq_num,
        sent |-> q.sent, rc |-> 0]

\* The SNM_TYPE_RSP_LIST_MSG branch.
process_RSP(state, sns, comms, seq, sender_sn, hdr, rsp) ==
    IF state = "READY"
    THEN [state |-> state, supernodes |-> sns, communities |-> comms,
          seq_num |-> seq, sent |-> <<>>, rc |-> -1]
    ELSE LET p == process_snm_rsp(sns, comms, rsp)
             q == send_req_to_first(seq, p.supernodes, p.sn_num, TRUE, <<>>)
         IN [state |-> state, supernodes |-> p.supernodes,
             communities |-> p.communities, seq_num |-> q.seq_num,
             sent |-> q.sent, rc |-> 0]

\* process_ADV that answers every ADV with the A flag, whether or not it
\* brought anything new.
process_ADV_always(state, sns, comms, seq, sender_sn, hdr, adv) ==
    LET p == process_snm_adv(sns, comms, sender_sn, adv) IN
    [state |-> state, supernodes |-> p.supernodes, communities |-> p.communities,
     seq_num |-> seq,
     sent |-> IF "A" \in hdr.flags
              THEN send_snm_adv(state, sender_sn, p.communities.head)
              ELSE <<>>,
     rc |-> 0]

\* The SNM_TYPE_ADV_MSG branch.
process_ADV(state, sns, comms, seq, sender_sn, hdr, adv) ==
    LET p == process_snm_adv(sns, comms, sender_sn, adv) IN
    [state |-> state, supernodes |-> p.supernodes, communities |-> p.communities,
     seq_num |-> seq,
     sent |-> IF p.updated # 0 /\ "A" \in hdr.flags
              THEN send_snm_adv(state, sender_sn, p.communities.head)
              ELSE <<>>,
     rc |-> 0]

\* process_sn_msg: the result of handling one datagram of the federation
\* socket.
process_sn_msg(state, sns, comms, seq, sender_sock, msg_buf) ==
    LET h == decode_SNM_hdr(msg_buf)
        sender_sn == SnSenderSock(sender_sock)
    IN IF ~h.ok
       THEN [state |-> state, supernodes |-> sns, communities |-> comms,
             seq_num |-> seq, sent |-> <<>>, rc |-> -1]
       ELSE CASE h.hdr.type = "REQ" ->
                   process_REQ(state, sns, comms, seq, sender_sn, h.hdr, msg_buf[4])
              [] h.hdr.type = "RSP" ->
                   process_RSP(state, sns, comms, seq, sender_sn, h.hdr, msg_buf[4])
              [] h.hdr.type = "ADV" ->
                   process_ADV(state, sns, comms, seq, sender_sn, h.hdr, msg_buf[4])
              [] OTHER ->
                   [state |-> state, supernodes |-> sns, communities |-> comms,
                    seq_num |-> seq, sent |-> <<>>, rc |-> 0]

(* ------------------------------- datagrams ---------------------------- *)

\* The socket an edge may have written inline itself.
EdgeInlineSock == [family |-> "AF_INET", port |-> 7000, addr |-> "10.0.0.1"]

FlagSets == {{}, {"SOCKET", "OPTIONS"}, {"FROM_SUPERNODE"},
             {"FROM_SUPERNODE", "SOCKET", "OPTIONS"}}

Hdr(ttl, pc, flags, community) ==
    [ttl |-> ttl, pc |-> pc, flags |-> flags, community |-> community]

SenderA == CHOOSE s \in Senders : s.sin_addr = "192.0.2.10"
SenderB == CHOOSE s \in Senders : s.sin_addr = "192.0.2.11"

PacketFrame(ttl, f, c, src, dst) ==
    encode_PACKET(Hdr(ttl, "PACKET", f, c),
                  [srcMac |-> src, dstMac |-> dst, sock |-> EdgeInlineSock])
      \o Payload

RegisterFrame(ttl, f, c, src, dst) ==
    encode_REGISTER(Hdr(ttl, "REGISTER", f, c),
                    [cookie |-> "ck1", srcMac |-> src, dstMac |-> dst,
                     sock |-> EdgeInlineSock])

RegisterSuperFrame(ttl, c, ck, mac) ==
    encode_REGISTER_SUPER(Hdr(ttl, "REGISTER_SUPER", {}, c),
                          [cookie |-> ck, edgeMac |-> mac])

\* The inputs of one receive on the edge socket: the sender, the datagram
\* and the outcome of the sends made while handling it.
PacketInputs ==
    {<<SenderB, PacketFrame(2, {}, c, src, dst), AllSent>> :
        c \in Communities, src \in {MacA, MacC}, dst \in {MacB, MacBcast}}
    \cup {<<SenderB, PacketFrame(2, {}, "net1", src, dst), out>> :
        src \in {MacC}, dst \in {MacB, MacBcast}, out \in SendOutcomes}
    \cup {<<s, PacketFrame(1, f, "net1", MacA, dst), AllSent>> :
        s \in Senders, f \in FlagSets \ {{}}, dst \in {MacB, MacMulti}}

RegisterInputs ==
    {<<SenderA, RegisterFrame(2, f, "net1", MacC, dst), AllSent>> :
        f \in FlagSets, dst \in {MacB, MacMulti}}
    \cup {<<SenderA, RegisterFrame(2, {}, "net1", MacC, MacB), out>> :
        out \in SendOutcomes}

RegisterSuperInputs ==
    {<<s, RegisterSuperFrame(1, c, "ck1", mac), AllSent>> :
        s \in Senders, c \in Communities, mac \in EdgeMacs}
    \cup {<<SenderA, RegisterSuperFrame(2, "net1", "ck2", MacA), out>> :
        out \in SendOutcomes}

OtherInputs ==
    {<<SenderA, encode_common(Hdr(1, pc, {}, "net1")) \o <<"ck1", MacA, MacB>>,
       AllSent>> :
        pc \in {"REGISTER_ACK", "UNKNOWN"}}

\* A frame of TTL 0 of every packet code.
ExpiredInputs ==
    {<<SenderA, buf, AllSent>> :
        buf \in {PacketFrame(0, {}, "net1", MacA, MacB),
                 PacketFrame(0, {}, "net1", MacA, MacBcast),
                 RegisterFrame(0, {}, "net1", MacA, MacB),
                 RegisterSuperFrame(0, "net1", "ck1", MacA),
                 encode_common(Hdr(0, "REGISTER_ACK", {}, "net1"))
                   \o <<"ck1", MacA, MacB>>,
                 encode_common(Hdr(0, "UNKNOWN", {}, "net1"))}}

\* Datagrams too short for the common header.
TruncatedInputs ==
    {<<SenderA, <<N2N_PKT_VERSION>>, AllSent>>,
     <<SenderB, <<N2N_PKT_VERSION, 2, "PACKET">>, AllSent>>}

EdgeInputs ==
    {in : in \in PacketInputs \cup RegisterInputs \cup RegisterSuperInputs
                   \cup OtherInputs \cup ExpiredInputs \cup TruncatedInputs}

\* The inputs of one receive on the edge socket in the federation build.
SnmEdgeInputs ==
    {in : in \in
    {<<SenderA, RegisterSuperFrame(1, c, "ck1", MacA), AllSent>> : c \in Communities}
    \cup {<<SenderA, RegisterSuperFrame(0, "net1", "ck1", MacA), AllSent>>}}

\* The senders of federation datagrams: two siblings and an edge.
SnSender(sn) == [sin_addr |-> sn.addr, sin_port |-> htons(sn.port)]

\* The inputs of one receive on the federation socket.
SnInputs ==
    {in : in \in
    {<<SnSender(Sn1), SnmFrame("REQ", f, 1, [comms |-> <<>>])>> :
        f \in {{"S"}, {"S", "A"}, {"S", "C"}}}
    \cup {<<SnSender(SnEdge), SnmFrame("REQ", {"A", "E"}, 1, [comms |-> names])>> :
        names \in {<<"net2">>, <<"net1", "net2">>, <<>>}}
    \cup {<<SnSender(Sn1), SnmFrame("RSP", {"S"}, 1, [sns |-> sns, comms |-> cis])>> :
        sns \in {<<>>, <<SnSelf, Sn2>>},
        cis \in {<<>>, <<CommInfo("net2", <<Sn1>>)>>, <<CommInfo("net1", <<>>)>>}}
    \cup {<<SnSender(Sn2), SnmFrame("ADV", f, 1, [comms |-> <<"net1">>])>> :
        f \in {{"S"}, {"S", "A"}}}
    \cup {<<SnSender(SnLoop), SnmFrame("REQ", {"S", "A"}, 1, [comms |-> <<>>])>>,
          <<SnSender(SnLoop), SnmFrame("REQ", {"A", "E"}, 1, [comms |-> <<"net2">>])>>,
          <<SnSender(SnLoop), SnmFrame("ADV", {"S", "A"}, 1, [comms |-> <<"net1">>])>>,
          <<SnSender(Sn1), SnmFrame("BAD", {}, 1, [comms |-> <<>>])>>,
          <<SnSender(Sn1), <<"REQ", {"S"}>>>>}}

\* The federation build under edge traffic: one edge registers, and frames
\* of every packet code are addressed to it, to an unknown MAC and to all.
SnmTrafficEdgeInputs ==
    {in : in \in
    {<<SenderA, RegisterSuperFrame(1, "net1", "ck1", MacA), AllSent>>,
     <<SenderA, PacketFrame(2, {}, "net1", MacA, MacB), AllSent>>,
     <<SenderB, PacketFrame(2, {}, "net1", MacC, MacA), AllSent>>,
     <<SenderA, PacketFrame(2, {}, "net1", MacA, MacBcast), AllSent>>,
     <<SenderB, RegisterFrame(2, {}, "net1", MacC, MacA), AllSent>>}
    \cup OtherInputs}

\* The federation datagrams read under edge traffic: one of each type from a
\* sibling, and the requests of edges for two communities.
SnmTrafficSnInputs ==
    {in : in \in
    {<<SnSender(Sn1), SnmFrame("REQ", {"S"}, 1, [comms |-> <<>>])>>,
     <<SnSender(SnEdge), SnmFrame("REQ", {"A", "E"}, 1, [comms |-> <<"net2">>])>>,
     <<SnSender(SnEdge), SnmFrame("REQ", {"A", "E"}, 1, [comms |-> <<"net3">>])>>,
     <<SnSender(Sn1), SnmFrame("RSP", {"S"}, 1,
                               [sns |-> <<Sn2>>, comms |-> <<CommInfo("net2", <<Sn1>>)>>])>>,
     <<SnSender(Sn2), SnmFrame("ADV", {"S", "A"}, 1, [comms |-> <<"net1">>])>>}}

\* The traffic of the runs with few edges: two edges register in one
\* community, and frames are addressed to one of them and to all.
ExpiryInputs ==
    {in : in \in
    {<<SenderA, RegisterSuperFrame(1, "net1", "ck1", MacA), AllSent>>,
     <<SenderB, RegisterSuperFrame(1, "net1", "ck1", MacB), AllSent>>,
     <<SenderA, PacketFrame(2, {}, "net1", MacA, MacB), AllSent>>,
     <<SenderA, PacketFrame(2, {}, "net1", MacC, MacBcast), AllSent>>,
     <<SenderA, RegisterFrame(2, {}, "net1", MacA, MacB), AllSent>>}}

\* The traffic of an edge that keeps its registration alive: MacA registers,
\* also from another socket and in another community, and frames are
\* addressed to it and to an edge that never registered.
KeepaliveInputs ==
    {in : in \in
    {<<SenderA, RegisterSuperFrame(1, "net1", "ck1", MacA), AllSent>>,
     <<SenderB, RegisterSuperFrame(1, "net2", "ck2", MacA), AllSent>>,
     <<SenderB, RegisterSuperFrame(0, "net1", "ck1", MacA), AllSent>>}
    \cup {<<SenderB, PacketFrame(2, {}, "net1", MacC, MacA), out>> :
            out \in SendOutcomes}
    \cup {<<SenderB, PacketFrame(2, {}, "net1", MacC, MacB), AllSent>>,
          <<SenderB, PacketFrame(0, {}, "net1", MacC, MacA), AllSent>>}}

\* The datagrams read from the management socket: process_mgmt does not look
\* at them.
MgmtInputs == {<<"stats">>, <<"reload", "communities">>}

\* What load_snm_info finds: the supernodes of the file, those of the command
\* line, and the persisted communities.
BootInputs ==
    {<<file, cmdline, cms>> :
        file \in {<<>>, <<Sn1>>},
        cmdline \in {<<>>, <<SnLoop>>, <<Sn1>>},
        cms \in {<<>>, <<CommInfo("net1", <<>>)>>}}

(* -------------------------------- state ------------------------------- *)

VARIABLES
    pc,          \* position of main and run_loop, or "stopped"
    clock,       \* time(NULL)
    start_time,  \* sss->start_time
    edges,       \* sss->edges, head first
    stats,       \* sss->stats
    snm_discovery_state,  \* sss->snm_discovery_state
    supernodes,  \* sss->supernodes, head first
    communities, \* sss->communities: head and persist
    seq_num,     \* sss->seq_num
    rx,          \* the datagram the last step received
    sent,        \* the sendto() calls of the last step, in order
    prev,        \* edges and stats as they were before the last step
    attempts     \* the sendto_sock calls try_forward and try_broadcast made

snm == <<snm_discovery_state, supernodes, communities, seq_num>>

vars == <<pc, clock, start_time, edges, stats, snm, rx, sent, prev, attempts>>

\* Every step records the directory and the counters it started from.
Snapshot == prev' = [edges |-> edges, stats |-> stats]

\* bread: what recvfrom returned.
NoRx ==
    [sock |-> "none", sender |-> [sin_addr |-> "0.0.0.0", sin_port |-> 0],
     buf |-> <<>>, bread |-> 0]

ZeroStats ==
    [errors |-> 0, reg_super |-> 0, reg_super_nak |-> 0, fwd |-> 0,
     broadcast |-> 0, last_fwd |-> 0, last_reg_super |-> 0]

\* The counters are within the bounds of the model.
InBounds(st) ==
    /\ st.errors + st.fwd + st.broadcast <= MaxEvents
    /\ st.reg_super <= MaxRegs

\* The time one select() takes.
Elapsed == {0, 1}

\* The sends of a step that try_forward or try_broadcast made: all those of
\* the edge socket but the REGISTER_SUPER_ACK.
ForwardAttempts(snd) ==
    Cardinality({k \in 1..Len(snd) : snd[k].buf[3] # "REGISTER_SUPER_ACK"})

\* init_sn.
init_sn ==
    /\ clock = 0
    /\ start_time = 0
    /\ edges = <<>>
    /\ stats = ZeroStats
    /\ snm_discovery_state = "DISCOVERY"
    /\ supernodes = <<>>
    /\ communities = [head |-> <<>>, persist |-> <<>>]
    /\ seq_num = 3
    /\ rx = NoRx
    /\ sent = <<>>
    /\ prev = [edges |-> <<>>, stats |-> ZeroStats]
    /\ attempts = 0

\* The build without N2N_MULTIPLE_SUPERNODES, at the start of run_loop.
Init == init_sn /\ pc = "select"

\* The build with N2N_MULTIPLE_SUPERNODES, before load_snm_info.
InitSnm == init_sn /\ pc = "boot"

\* Boot that does not take an empty list for the first running supernode.
Boot_discovery ==
    /\ Snapshot
    /\ pc = "boot"
    /\ \E in \in BootInputs :
          LET sns == update_supernodes_all(in[1], in[2]).list
              state == snm_discovery_state
              q == send_req_to_all_supernodes(seq_num, sns, state # "READY", <<>>)
          IN /\ supernodes' = sns
             /\ communities' = [head |-> <<>>, persist |-> in[3]]
             /\ snm_discovery_state' = state
             /\ seq_num' = q.seq_num
             /\ sent' = q.sent
    /\ start_time' = clock
    /\ pc' = "top"
    /\ rx' = NoRx
    /\ UNCHANGED <<attempts, clock, edges, stats>>

\* main: load_snm_info, the first requests, then run_loop's start_time.
Boot ==
    /\ Snapshot
    /\ pc = "boot"
    /\ \E in \in BootInputs :
          LET sns == update_supernodes_all(in[1], in[2]).list
              state == IF sns = <<>> THEN "READY" ELSE snm_discovery_state
              q == send_req_to_all_supernodes(seq_num, sns, state # "READY", <<>>)
          IN /\ supernodes' = sns
             /\ communities' = [head |-> <<>>, persist |-> in[3]]
             /\ snm_discovery_state' = state
             /\ seq_num' = q.seq_num
             /\ sent' = q.sent
    /\ start_time' = clock
    /\ pc' = "top"
    /\ rx' = NoRx
    /\ UNCHANGED <<attempts, clock, edges, stats>>

\* The top of the loop: communities_discovery while not READY.
LoopTop ==
    /\ Snapshot
    /\ pc = "top"
    /\ IF snm_discovery_state # "READY"
       THEN LET r == communities_discovery(snm_discovery_state, supernodes,
                                           communities, start_time, clock)
            IN /\ snm_discovery_state' = r.state
               /\ communities' = r.communities
               /\ sent' = r.sent
       ELSE /\ UNCHANGED <<snm_discovery_state, communities>>
            /\ sent' = <<>>
    /\ pc' = "select"
    /\ rx' = NoRx
    /\ UNCHANGED <<attempts, clock, start_time, edges, stats, supernodes, seq_num>>

\* select() with the 10 second timeout, then now = time(NULL), while the
\* clock is not beyond the limit.
SelectUntil(multi, limit) ==
    /\ Snapshot
    /\ pc = "select"
    /\ \E d \in Elapsed, rc \in {0, 1} :
          /\ clock + d <= limit
          /\ clock' = clock + d
          /\ pc' = IF rc > 0 THEN (IF multi THEN "sn" ELSE "edge") ELSE "purge"
    /\ rx' = NoRx
    /\ sent' = <<>>
    /\ UNCHANGED <<attempts, start_time, edges, stats, snm>>

Select(multi) == SelectUntil(multi, MaxTime)

\* break out of the loop, then deinit_sn.
Stop(sock, bread) ==
    /\ Snapshot
    /\ pc' = "stopped"
    /\ edges' = purge_peer_list(edges, MaxTimeLong + 1)
    /\ supernodes' = <<>>
    /\ communities' = [communities EXCEPT !.head = <<>>]
    /\ seq_num' = 3
    /\ rx' = [NoRx EXCEPT !.sock = sock, !.bread = bread]
    /\ sent' = <<>>
    /\ UNCHANGED <<attempts, clock, start_time, stats, snm_discovery_state>>

\* A step that receives nothing and sends nothing.
Skip(to) ==
    /\ Snapshot
    /\ pc' = to
    /\ rx' = NoRx
    /\ sent' = <<>>
    /\ UNCHANGED <<attempts, clock, start_time, edges, stats, snm>>

\* FD_ISSET(sss->sn_sock) holds: recvfrom, then process_sn_msg.
SnRecv(inputs) ==
    /\ Snapshot
    /\ pc = "sn"
    /\ \E in \in inputs :
          LET r == process_sn_msg(snm_discovery_state, supernodes, communities,
                                  seq_num, in[1], in[2])
          IN /\ snm_discovery_state' = r.state
             /\ supernodes' = r.supernodes
             /\ communities' = r.communities
             /\ seq_num' = r.seq_num
             /\ sent' = r.sent
             /\ rx' = [sock |-> "sn", sender |-> in[1], buf |-> in[2],
                       bread |-> Len(in[2])]
    /\ pc' = "edge"
    /\ UNCHANGED <<attempts, clock, start_time, edges, stats>>

\* recvfrom on the federation socket returns 0 or fails.
SnRecvError ==
    /\ pc = "sn"
    /\ \E bread \in {0, -1} : Stop("sn", bread)

\* FD_ISSET(sss->sn_sock) does not hold.
SnSkip ==
    /\ pc = "sn"
    /\ Skip("edge")

\* FD_ISSET(sss->sock) holds: recvfrom, then process_udp on a datagram with
\* data.
EdgeRecv(multi, inputs) ==
    /\ Snapshot
    /\ pc = "edge"
    /\ \E in \in inputs :
          LET sender == in[1]
              buf == in[2]
              out == in[3]
              r == process_udp(multi, communities.head, edges, stats, sender, buf,
                               clock, out)
          IN
          /\ InBounds(r.stats)
          /\ edges' = r.edges
          /\ stats' = r.stats
          /\ sent' = r.sent
          /\ attempts' = attempts + ForwardAttempts(r.sent)
          /\ rx' = [sock |-> "edge", sender |-> sender, buf |-> buf,
                    bread |-> Len(buf)]
    /\ pc' = "mgmt"
    /\ UNCHANGED <<clock, start_time, snm>>

\* A read of 0 on the edge socket taken for fatal, as on the other sockets.
EdgeRecvEmpty_fatal ==
    /\ Snapshot
    /\ pc = "edge"
    /\ \E sender \in Senders :
          rx' = [sock |-> "edge", sender |-> sender, buf |-> <<>>, bread |-> 0]
    /\ sent' = <<>>
    /\ pc' = "stopped"
    /\ UNCHANGED <<attempts, clock, start_time, edges, stats, snm>>

\* recvfrom on the edge socket returns 0: nothing is dispatched.
EdgeRecvEmpty ==
    /\ Snapshot
    /\ pc = "edge"
    /\ \E sender \in Senders :
          rx' = [sock |-> "edge", sender |-> sender, buf |-> <<>>, bread |-> 0]
    /\ sent' = <<>>
    /\ pc' = "mgmt"
    /\ UNCHANGED <<attempts, clock, start_time, edges, stats, snm>>

\* recvfrom on the edge socket fails.
EdgeRecvError ==
    /\ pc = "edge"
    /\ Stop("edge", -1)

\* FD_ISSET(sss->sock) does not hold.
EdgeSkip ==
    /\ pc = "edge"
    /\ Skip("mgmt")

\* FD_ISSET(sss->mgmt_sock) holds: recvfrom, then process_mgmt.
MgmtRecv(bufs, outs) ==
    /\ Snapshot
    /\ pc = "mgmt"
    /\ \E sender \in Senders, buf \in bufs, out \in outs :
          LET r == process_mgmt(edges, stats, start_time, sender, clock, out) IN
          /\ InBounds(r.stats)
          /\ stats' = r.stats
          /\ sent' = r.sent
          /\ rx' = [sock |-> "mgmt", sender |-> sender, buf |-> buf,
                    bread |-> Len(buf)]
    /\ pc' = "purge"
    /\ UNCHANGED <<attempts, clock, start_time, edges, snm>>

\* recvfrom on the management socket returns 0 or fails.
MgmtRecvError ==
    /\ pc = "mgmt"
    /\ \E bread \in {0, -1} : Stop("mgmt", bread)

\* FD_ISSET(sss->mgmt_sock) does not hold.
MgmtSkip ==
    /\ pc = "mgmt"
    /\ Skip("purge")

\* The end of an iteration that does not purge.
Purge_missing(multi) ==
    /\ Snapshot
    /\ pc = "purge"
    /\ edges' = edges
    /\ pc' = IF multi THEN "top" ELSE "select"
    /\ rx' = NoRx
    /\ sent' = <<>>
    /\ UNCHANGED <<attempts, clock, start_time, stats, snm>>

\* The end of an iteration whose sweep lets a record live one tick longer.
Purge_late(multi) ==
    /\ Snapshot
    /\ pc = "purge"
    /\ edges' = purge_peer_list(edges, clock - REGISTRATION_TIMEOUT - 1)
    /\ pc' = IF multi THEN "top" ELSE "select"
    /\ rx' = NoRx
    /\ sent' = <<>>
    /\ UNCHANGED <<attempts, clock, start_time, stats, snm>>

\* The end of the iteration: purge_expired_registrations.
Purge(multi) ==
    /\ Snapshot
    /\ pc = "purge"
    /\ edges' = purge_expired_registrations(edges, clock)
    /\ pc' = IF multi THEN "top" ELSE "select"
    /\ rx' = NoRx
    /\ sent' = <<>>
    /\ UNCHANGED <<attempts, clock, start_time, stats, snm>>

Next ==
    \/ Select(FALSE)
    \/ EdgeRecv(FALSE, EdgeInputs)
    \/ EdgeRecvEmpty
    \/ EdgeRecvError
    \/ EdgeSkip
    \/ MgmtRecv(MgmtInputs, SendOutcomes)
    \/ MgmtRecvError
    \/ MgmtSkip
    \/ Purge(FALSE)

Spec == Init /\ [][Next]_vars

NextExpiry ==
    \/ SelectUntil(FALSE, MaxTimeLong)
    \/ EdgeRecv(FALSE, ExpiryInputs)
    \/ EdgeRecvEmpty
    \/ EdgeRecvError
    \/ EdgeSkip
    \/ MgmtRecv({<<"stats">>}, {AllSent})
    \/ MgmtRecvError
    \/ MgmtSkip
    \/ Purge(FALSE)

\* The build without N2N_MULTIPLE_SUPERNODES serving two edges over a longer
\* time.
SpecExpiry == Init /\ [][NextExpiry]_vars

\* select() while the edge keeps its schedule: the clock does not pass the
\* advertised lifetime after the last REGISTER_SUPER handled.
SelectKeepalive ==
    /\ SelectUntil(FALSE, MaxTimeLong)
    /\ stats.reg_super > 0 => clock' - stats.last_reg_super <= LifetimeTicks

NextKeepalive ==
    \/ SelectKeepalive
    \/ EdgeRecv(FALSE, KeepaliveInputs)
    \/ EdgeRecvEmpty
    \/ EdgeRecvError
    \/ EdgeSkip
    \/ MgmtRecv({<<"stats">>}, {AllSent})
    \/ MgmtRecvError
    \/ MgmtSkip
    \/ Purge(FALSE)

\* The build without N2N_MULTIPLE_SUPERNODES serving one edge that sends a
\* REGISTER_SUPER at least once in every advertised lifetime.
SpecKeepalive == Init /\ [][NextKeepalive]_vars

NextSnm ==
    \/ Boot
    \/ LoopTop
    \/ Select(TRUE)
    \/ SnRecv(SnInputs)
    \/ SnRecvError
    \/ SnSkip
    \/ EdgeRecv(TRUE, SnmEdgeInputs)
    \/ EdgeRecvEmpty
    \/ EdgeRecvError
    \/ EdgeSkip
    \/ MgmtRecv({<<"stats">>}, {AllSent})
    \/ MgmtRecvError
    \/ MgmtSkip
    \/ Purge(TRUE)

SpecSnm == InitSnm /\ [][NextSnm]_vars

NextSnmTraffic ==
    \/ Boot
    \/ LoopTop
    \/ Select(TRUE)
    \/ SnRecv(SnmTrafficSnInputs)
    \/ SnRecvError
    \/ SnSkip
    \/ EdgeRecv(TRUE, SnmTrafficEdgeInputs)
    \/ EdgeRecvEmpty
    \/ EdgeRecvError
    \/ EdgeSkip
    \/ MgmtRecv({<<"stats">>}, {AllSent})
    \/ MgmtRecvError
    \/ MgmtSkip
    \/ Purge(TRUE)

\* The federation build serving edge traffic of every packet code.
SpecSnmTraffic == InitSnm /\ [][NextSnmTraffic]_vars

\* A select() during which the clock advances.
Tick == Select(TRUE) /\ clock' # clock

\* A step after which the loop is still running.
Iterate == NextSnm /\ pc' # "stopped"

\* The federation build with a loop that goes on while no read is fatal, and
\* a clock that does not stand still for ever.
SpecSnmLive ==
    InitSnm /\ [][NextSnm]_vars /\ WF_vars(Iterate) /\ SF_vars(Tick)

(* ------------------------------ properties ---------------------------- *)

\* The socket an edge is observed at: the sender's address and its port in
\* host order.
ObservedSock(sender) ==
    [family |-> "AF_INET", addr |-> sender.sin_addr,
     port |-> IF sender.sin_addr = "192.0.2.10" THEN 40000 ELSE 40001]

MulticastMacs == {MacMulti, MacBcast}

\* The last step dispatched a datagram of this packet code with TTL >= 1.
Dispatched(code) ==
    /\ rx.sock = "edge"
    /\ Len(rx.buf) >= 5
    /\ rx.buf[3] = code
    /\ rx.buf[2] >= 1

RecordsOf(list, mac) == {i \in 1..Len(list) : list[i].mac_addr = mac}

\* C1: after a REGISTER_SUPER with TTL >= 1 is handled the directory has a
\* record of edgeMac, and it carries the frame's community, the sender's
\* observed address and port, and last_seen = now.
C1_RegisterSuperUpsert ==
    Dispatched("REGISTER_SUPER") =>
        /\ RecordsOf(edges, rx.buf[7]) # {}
        /\ \A i \in RecordsOf(edges, rx.buf[7]) :
              /\ edges[i].community_name = rx.buf[5]
              /\ edges[i].sock = ObservedSock(rx.sender)
              /\ edges[i].last_seen = clock

\* C1 witness: the MAC was registered before, earlier, in another community
\* and from another socket.
C1_Witness ==
    /\ Dispatched("REGISTER_SUPER")
    /\ \E i \in RecordsOf(prev.edges, rx.buf[7]) :
          /\ prev.edges[i].community_name # rx.buf[5]
          /\ prev.edges[i].sock # ObservedSock(rx.sender)
          /\ prev.edges[i].last_seen < clock

\* The number of header and PACKET fields in front of the opaque payload.
PacketFields(buf) == IF "SOCKET" \in buf[4] THEN 8 ELSE 7

\* C2: every frame emitted for a PACKET with TTL >= 1 and FROM_SUPERNODE
\* unset has FROM_SUPERNODE and SOCKET set and the other flags as received,
\* the sender's address and port inline, the TTL one less, and the received
\* payload at its end.
C2_PacketRewritten ==
    (Dispatched("PACKET") /\ "FROM_SUPERNODE" \notin rx.buf[4]) =>
        \A k \in 1..Len(sent) :
            LET out == sent[k].buf IN
            /\ Len(out) >= 8
            /\ out[4] = rx.buf[4] \cup {"FROM_SUPERNODE", "SOCKET"}
            /\ out[8] = ObservedSock(rx.sender)
            /\ out[2] = rx.buf[2] - 1
            /\ SubSeq(out, 9, Len(out))
                 = SubSeq(rx.buf, PacketFields(rx.buf) + 1, Len(rx.buf))

\* C2 witness: a frame is emitted for a PACKET that came with a socket of its
\* own inline and with another flag set.
C2_Witness ==
    /\ Dispatched("PACKET")
    /\ rx.buf[4] = {"SOCKET", "OPTIONS"}
    /\ Len(sent) = 1
    /\ Len(rx.buf) > PacketFields(rx.buf)

\* C3: every frame emitted for a PACKET with TTL >= 1 and FROM_SUPERNODE set
\* equals the received datagram except for the TTL, which is one less.
C3_ForwardedTtlDecremented ==
    (Dispatched("PACKET") /\ "FROM_SUPERNODE" \in rx.buf[4]) =>
        \A k \in 1..Len(sent) :
            sent[k].buf = [rx.buf EXCEPT ![2] = rx.buf[2] - 1]

\* C4: a datagram of TTL 0 sends nothing and changes neither the directory
\* nor the statistics, whatever its packet code.
C4_ExpiredIsNoOp ==
    (rx.sock = "edge" /\ Len(rx.buf) >= 5 /\ rx.buf[2] = 0) =>
        /\ sent = <<>>
        /\ edges = prev.edges
        /\ stats = prev.stats

\* C4 witness: a REGISTER_SUPER of TTL 0 for a MAC that has no record.
C4_Witness ==
    /\ rx.sock = "edge"
    /\ Len(rx.buf) >= 7
    /\ rx.buf[2] = 0
    /\ rx.buf[3] = "REGISTER_SUPER"
    /\ RecordsOf(edges, rx.buf[7]) = {}
    /\ edges # <<>>

\* The records a broadcast of the received PACKET goes to.
BroadcastTargets ==
    {i \in 1..Len(edges) : /\ edges[i].community_name = rx.buf[5]
                           /\ edges[i].mac_addr # rx.buf[6]}

\* C5: a PACKET with TTL >= 1 and a multicast or broadcast destination is
\* sent once to the socket of every record of the frame's community other
\* than the source MAC's, and nowhere else; all sends carry the same bytes.
C5_BroadcastTargets ==
    (Dispatched("PACKET") /\ rx.buf[7] \in MulticastMacs) =>
        /\ Len(sent) = Cardinality(BroadcastTargets)
        /\ \A d \in Senders :
              Cardinality({k \in 1..Len(sent) : sent[k].to = d})
                = Cardinality({i \in BroadcastTargets :
                                  edges[i].sock = ObservedSock(d)})
        /\ \A k, l \in 1..Len(sent) : sent[k].buf = sent[l].buf

\* C5 witness: the source MAC is registered and so is one other edge of the
\* community.
C5_Witness ==
    /\ Dispatched("PACKET")
    /\ rx.buf[7] \in MulticastMacs
    /\ RecordsOf(edges, rx.buf[6]) # {}
    /\ Len(edges) = 2
    /\ Len(sent) = 1

Expired(r) == clock - r.last_seen > REGISTRATION_TIMEOUT

C8_OneRecordPerCommunityMac ==
    \A i, j \in 1..Len(edges) :
        (/\ edges[i].mac_addr = edges[j].mac_addr
         /\ edges[i].community_name = edges[j].community_name) => i = j

\* C8 witness: an edge registers again, in the same community, from another
\* socket.
C8_Witness ==
    /\ Dispatched("REGISTER_SUPER")
    /\ \E i \in RecordsOf(prev.edges, rx.buf[7]) :
          /\ prev.edges[i].community_name = rx.buf[5]
          /\ prev.edges[i].sock # ObservedSock(rx.sender)
    /\ Cardinality(RecordsOf(edges, rx.buf[7])) = 1

\* C9: a REGISTER_SUPER with TTL >= 1 causes one REGISTER_SUPER_ACK, sent to
\* the sender, with the request's cookie and edgeMac, lifetime 120, the
\* sender's observed socket, flags SOCKET|FROM_SUPERNODE and, for a community
\* the federation directory does not hold, num_sn = 0; reg_super grows by one
\* and last_reg_super is now.
C9_RegisterSuperAck ==
    Dispatched("REGISTER_SUPER") =>
        /\ Len(sent) = 1
        /\ sent[1].via = "edge"
        /\ sent[1].to = rx.sender
        /\ LET ack == sent[1].buf IN
              /\ Len(ack) >= 10
              /\ ack[3] = "REGISTER_SUPER_ACK"
              /\ ack[4] = {"SOCKET", "FROM_SUPERNODE"}
              /\ ack[6] = rx.buf[6]
              /\ ack[7] = rx.buf[7]
              /\ ack[8] = 120
              /\ ack[9] = ObservedSock(rx.sender)
              /\ (\A i \in 1..Len(communities.head) :
                     communities.head[i].name # rx.buf[5]) => ack[10] = 0
        /\ stats.reg_super = prev.stats.reg_super + 1
        /\ stats.last_reg_super = clock

\* C9 witness: the federation directory holds a community, but not the one
\* of the request, and the previous registration was earlier.
C9_Witness ==
    /\ Dispatched("REGISTER_SUPER")
    /\ communities.head # <<>>
    /\ \A i \in 1..Len(communities.head) : communities.head[i].name # rx.buf[5]
    /\ prev.stats.reg_super = 1
    /\ prev.stats.last_reg_super < clock

\* C10: once the federation state is READY no step changes it.
C10_ReadyIsTerminal ==
    [][snm_discovery_state = "READY" => snm_discovery_state' = "READY"]_vars

\* C10 witness: a response is received in the state READY that was reached
\* from DISCOVERY.
C10_Witness ==
    /\ snm_discovery_state = "READY"
    /\ supernodes # <<>>
    /\ rx.sock = "sn"
    /\ Len(rx.buf) >= 3
    /\ rx.buf[1] = "RSP"

\* The last step received a federation frame of this type.
SnReceived(type) ==
    /\ rx.sock = "sn"
    /\ Len(rx.buf) >= 3
    /\ rx.buf[1] = type

\* The step to come receives a federation frame of this type.
SnReceivesNext(type) ==
    /\ rx'.sock = "sn"
    /\ Len(rx'.buf) >= 3
    /\ rx'.buf[1] = type

\* C11: a REQ received while the state is not READY and a RSP received while
\* it is READY are dropped: nothing is sent, and the supernode directory, the
\* community lists and the state stay as they are.
C11_OutOfStateDropped ==
    [][(\/ SnReceivesNext("REQ") /\ snm_discovery_state # "READY"
        \/ SnReceivesNext("RSP") /\ snm_discovery_state = "READY") =>
          /\ sent' = <<>>
          /\ UNCHANGED <<supernodes, communities, snm_discovery_state>>]_vars

\* C11 witness: during discovery a sibling that is not in the directory has
\* asked for the lists.
C11_Witness ==
    /\ SnReceived("REQ")
    /\ "E" \notin rx.buf[2]
    /\ snm_discovery_state = "DISCOVERY"
    /\ rx.sender = SnSender(Sn1)
    /\ ~SeqHas(supernodes, Sn1)
    /\ sent = <<>>

\* The supernode itself: an address of 127.0.0.0/8, or its own address and
\* port.
IsSelf(sn) == sn.addr = "127.0.0.1" \/ sn = SnSelf

\* The sends of the step to come that go to this federation address.
SentNextTo(sn) == {k \in 1..Len(sent') : sent'[k].to = sn}

\* C12: booting with an empty merged supernode list gives READY and sends
\* nothing; with a non-empty one it gives DISCOVERY and sends one REQ with the
\* C flag to every listed sibling that is not the supernode itself, and to
\* nobody else.
C12_Boot ==
    [][pc = "boot" =>
         /\ pc' = "top"
         /\ IF supernodes' = <<>>
            THEN /\ snm_discovery_state' = "READY"
                 /\ sent' = <<>>
            ELSE /\ snm_discovery_state' = "DISCOVERY"
                 /\ \A k \in 1..Len(sent') :
                       /\ sent'[k].via = "sn"
                       /\ sent'[k].buf[1] = "REQ"
                       /\ "C" \in sent'[k].buf[2]
                       /\ SeqHas(supernodes', sent'[k].to)
                 /\ \A i \in 1..Len(supernodes') :
                       Cardinality(SentNextTo(supernodes'[i]))
                         = IF IsSelf(supernodes'[i]) THEN 0 ELSE 1]_vars

\* C12 witness: the boot has sent its one REQ; the list holds a sibling from
\* the file and a loopback address from the command line.
C12_Witness ==
    /\ pc = "top"
    /\ snm_discovery_state = "DISCOVERY"
    /\ Len(supernodes) = 2
    /\ \E i \in 1..2 : IsSelf(supernodes[i])
    /\ Len(sent) = 1
    /\ sent[1].buf[1] = "REQ"

\* C13: during discovery the state becomes READY at the top of the first
\* iteration that starts N2N_SUPER_DISCOVERY_INTERVAL or more after
\* start_time, and at no other step; and unless a read stops the loop READY
\* is eventually reached, with or without datagrams.
C13_DiscoveryEnds ==
    /\ [][(snm_discovery_state = "DISCOVERY" /\ pc # "boot") =>
            (snm_discovery_state' = "READY"
               <=> (pc = "top"
                    /\ clock - start_time >= N2N_SUPER_DISCOVERY_INTERVAL))]_vars
    /\ <>(snm_discovery_state = "READY" \/ pc = "stopped")

\* C13 witness: the top of an iteration that started after the interval has
\* just advertised and entered READY, and no datagram was ever counted.
C13_Witness ==
    /\ pc = "select"
    /\ snm_discovery_state = "READY"
    /\ clock - start_time >= N2N_SUPER_DISCOVERY_INTERVAL
    /\ sent # <<>>
    /\ stats = ZeroStats

\* C14: the step that takes the state from DISCOVERY to READY sends an ADV
\* to every sibling of the supernode directory that is not the supernode
\* itself, whatever the community list holds.
C14_AdvertisedOnReady ==
    [][(/\ pc = "top"
        /\ snm_discovery_state = "DISCOVERY"
        /\ snm_discovery_state' = "READY") =>
          \A i \in 1..Len(supernodes) :
              ~IsSelf(supernodes[i]) =>
                  \E k \in 1..Len(sent') :
                      /\ sent'[k].via = "sn"
                      /\ sent'[k].to = supernodes[i]
                      /\ sent'[k].buf[1] = "ADV"]_vars

\* C15: no REQ and no ADV is ever sent to an address of the supernode
\* itself.
C15_NoneToSelf ==
    \A k \in 1..Len(sent) :
        (sent[k].via = "sn" /\ sent[k].buf[1] \in {"REQ", "ADV"}) =>
            ~IsSelf(sent[k].to)

\* C15 witness: in the state READY a REQ asking for an ADV has come from a
\* loopback address, and nothing was sent.
C15_Witness ==
    /\ SnReceived("REQ")
    /\ "A" \in rx.buf[2]
    /\ snm_discovery_state = "READY"
    /\ rx.sender = SnSender(SnLoop)
    /\ sent = <<>>

\* C16: a REGISTER with TTL >= 1 for a registered unicast destination is
\* forwarded with FROM_SUPERNODE and SOCKET set and the sender's address and
\* port inline when it came without FROM_SUPERNODE, and as received when it
\* came with it.
C16_RegisterRewritten ==
    (/\ Dispatched("REGISTER")
     /\ rx.buf[8] \notin MulticastMacs
     /\ RecordsOf(edges, rx.buf[8]) # {}) =>
        /\ Len(sent) = 1
        /\ IF "FROM_SUPERNODE" \notin rx.buf[4]
           THEN /\ {"FROM_SUPERNODE", "SOCKET"} \subseteq sent[1].buf[4]
                /\ Len(sent[1].buf) >= 9
                /\ sent[1].buf[9] = ObservedSock(rx.sender)
           ELSE sent[1].buf = rx.buf

C18_DecodeFailureCounted ==
    (rx.sock = "edge" /\ rx.bread > 0 /\ Len(rx.buf) < 5) =>
        /\ stats = [prev.stats EXCEPT !.errors = @ + 1]
        /\ sent = <<>>
        /\ edges = prev.edges
        /\ pc = "mgmt"

\* C19: every send on the edge or management socket that fails or writes
\* short adds one to errors.
C19_FailedSendsCounted ==
    rx.sock \in {"edge", "mgmt"} =>
        stats.errors = prev.stats.errors
                         + Cardinality({k \in 1..Len(sent) : sent[k].res # "full"})

\* C20: a read of 0 bytes on the edge socket dispatches nothing and the
\* iteration goes on with the management socket; a read of 0 bytes on the
\* management or the federation socket stops the loop.
C20_ZeroLengthReads ==
    /\ (rx.sock = "edge" /\ rx.bread = 0) =>
          /\ pc = "mgmt"
          /\ sent = <<>>
          /\ edges = prev.edges
          /\ stats = prev.stats
    /\ (rx.sock \in {"mgmt", "sn"} /\ rx.bread = 0) => pc = "stopped"

\* C20 witness: with an edge registered, an empty datagram has been read
\* from the edge socket.
C20_Witness ==
    /\ rx.sock = "edge"
    /\ rx.bread = 0
    /\ pc = "mgmt"
    /\ edges # <<>>

\* C21: the loop stops only on a failed read of the management or the
\* federation socket; whatever is read from the edge socket, and whatever its
\* sends return, the loop goes on.
C21_OnlyNonEdgeReadsStop ==
    /\ pc = "stopped" => rx.sock \in {"mgmt", "sn"}
    /\ rx.sock = "edge" => pc # "stopped"

\* The labels of the lines of the management reply after the separator.
MgmtLabels ==
    <<"uptime", "edges", "errors", "reg_sup", "reg_nak", "fwd", "broadcast",
      "last fwd", "last reg">>

\* C22: a datagram of the management socket, whatever it holds, is answered
\* by one reply to its sender, of 10 lines: the separator, then uptime,
\* edges, errors, reg_sup, reg_nak, fwd, broadcast, last fwd, last reg; the
\* edges line gives the number of records; the directory stays as it is, and
\* so does every counter unless the send fails, which can only add to errors.
C22_MgmtReply ==
    (rx.sock = "mgmt" /\ rx.bread > 0) =>
        /\ Len(sent) = 1
        /\ sent[1].via = "mgmt"
        /\ sent[1].to = rx.sender
        /\ LET reply == sent[1].buf IN
              /\ Len(reply) = 10
              /\ reply[1] = "----------------"
              /\ \A i \in 1..9 : reply[i + 1][1] = MgmtLabels[i]
              /\ reply[3][2] = Len(edges)
        /\ edges = prev.edges
        /\ sent[1].res = "full" => stats = prev.stats
        /\ stats = [prev.stats EXCEPT !.errors = stats.errors]

\* C22 witness: a datagram other than a statistics request is answered while
\* two edges are registered and a frame has been forwarded.
C22_Witness ==
    /\ rx.sock = "mgmt"
    /\ rx.buf # <<"stats">>
    /\ Len(edges) = 2
    /\ stats.fwd > 0
    /\ Len(sent) = 1
    /\ sent[1].res = "full"

\* The destination MAC of the unicast PACKET or REGISTER the last step
\* dispatched.
UnicastDst == IF rx.buf[3] = "PACKET" THEN rx.buf[7] ELSE rx.buf[8]

\* C23: a unicast PACKET or REGISTER whose destination MAC has no record of
\* the frame's community causes no send, even when the MAC is registered in
\* another community.
C23_ForwardWithinCommunity ==
    (/\ Dispatched("PACKET") \/ Dispatched("REGISTER")
     /\ UnicastDst \notin MulticastMacs
     /\ \A i \in RecordsOf(edges, UnicastDst) :
           edges[i].community_name # rx.buf[5]) =>
        sent = <<>>

\* The last step handled a datagram that is not a REGISTER_SUPER with
\* TTL >= 1: one of the management or federation socket, or any other
\* datagram of the edge socket.
HandledOther ==
    /\ pc # "stopped"
    /\ \/ rx.sock \in {"mgmt", "sn"}
       \/ rx.sock = "edge" /\ ~Dispatched("REGISTER_SUPER")

\* The last step was the sweep at the end of an iteration of the federation
\* build.
Swept == pc = "top" /\ rx = NoRx

\* C24: handling a PACKET, REGISTER, REGISTER_ACK, unknown packet code,
\* management datagram or federation datagram leaves the directory as it is;
\* the directory changes only by a REGISTER_SUPER, which removes no record
\* and leaves those of other MACs alone, by the sweep, which only removes
\* records, or at shutdown; and the last_seen of a record never decreases.
C24_DirectoryWriters ==
    /\ HandledOther => edges = prev.edges
    /\ (edges # prev.edges /\ pc # "stopped") =>
          \/ /\ Dispatched("REGISTER_SUPER")
             /\ \A i \in 1..Len(prev.edges) :
                   IF prev.edges[i].mac_addr = rx.buf[7]
                   THEN RecordsOf(edges, rx.buf[7]) # {}
                   ELSE \E j \in 1..Len(edges) : edges[j] = prev.edges[i]
          \/ /\ Swept
             /\ \A j \in 1..Len(edges) :
                   \E i \in 1..Len(prev.edges) : edges[j] = prev.edges[i]
    /\ \A i \in 1..Len(prev.edges) :
          \A j \in RecordsOf(edges, prev.edges[i].mac_addr) :
              edges[j].last_seen >= prev.edges[i].last_seen

\* C24 witness: a federation datagram has been answered while the directory
\* holds a record registered earlier whose edge has sent a PACKET since.
C24_Witness ==
    /\ rx.sock = "sn"
    /\ sent # <<>>
    /\ pc # "stopped"
    /\ \E i \in 1..Len(edges) : edges[i].last_seen < stats.last_fwd

\* The ADV that answers the ADV received in the step to come: to its sender,
\* with the community list as it is after the merge.
AdvReplyNext(k) ==
    /\ sent'[k].via = "sn"
    /\ sent'[k].buf[1] = "ADV"
    /\ sent'[k].to = SnSenderSock(rx'.sender)
    /\ sent'[k].buf[4].comms = CommNames(communities'.head)

\* Every ADV of the step to come carries the A flag exactly when the state
\* it is sent in is not READY.
AdvFlagFollowsState ==
    \A k \in 1..Len(sent') :
        (sent'[k].via = "sn" /\ sent'[k].buf[1] = "ADV") =>
            ("A" \in sent'[k].buf[2] <=> snm_discovery_state # "READY")

\* C25: an ADV received in either state is answered by one ADV with the
\* local community list exactly when the merge changed the community list
\* and the received header has the A flag; an ADV sent in READY never has
\* the A flag, one sent in another state always has it.
C25_AdvReciprocated ==
    [][/\ SnReceivesNext("ADV") =>
            /\ Len(sent') <= 1
            /\ \A k \in 1..Len(sent') : AdvReplyNext(k)
            /\ sent' # <<>> <=> (/\ communities' # communities
                                 /\ "A" \in rx'.buf[2])
       /\ AdvFlagFollowsState]_vars

\* C25 as the code has it: the ADV is answered under the same condition
\* unless its sender is the supernode itself (a loopback address, or the local
\* address on the supernode port), which is never answered.
C25_AdvReciprocatedUnlessSelf ==
    [][/\ SnReceivesNext("ADV") =>
            /\ Len(sent') <= 1
            /\ \A k \in 1..Len(sent') : AdvReplyNext(k)
            /\ sent' # <<>> <=> (/\ communities' # communities
                                 /\ "A" \in rx'.buf[2]
                                 /\ ~IsSelf(SnSenderSock(rx'.sender)))
       /\ AdvFlagFollowsState]_vars

\* C25 witness: during discovery an ADV with the A flag has come from a
\* sibling and has been answered by an ADV that has the A flag too.
C25_Witness ==
    /\ SnReceived("ADV")
    /\ "A" \in rx.buf[2]
    /\ snm_discovery_state = "DISCOVERY"
    /\ Len(sent) = 1
    /\ sent[1].buf[1] = "ADV"
    /\ "A" \in sent[1].buf[2]
    /\ sent[1].buf[4].comms # <<>>

\* C26: in READY a REQ without the E flag leaves its sender in the supernode
\* directory and a REQ with the E flag does not add its sender; a REQ with A
\* and E that does not name exactly one community sends nothing and adds no
\* community; one that names exactly one community has it in the local list
\* afterwards, sends ADVs to siblings only when the community was new, and
\* sends one ADV to the requester last.
C26_ReadyRequest ==
    [][(SnReceivesNext("REQ") /\ snm_discovery_state = "READY") =>
          LET flags == rx'.buf[2]
              sender == SnSenderSock(rx'.sender)
              names == rx'.buf[4].comms
          IN /\ "E" \notin flags => SeqHas(supernodes', sender)
             /\ "E" \in flags => supernodes' = supernodes
             /\ ({"A", "E"} \subseteq flags /\ Len(names) # 1) =>
                   /\ sent' = <<>>
                   /\ communities' = communities
             /\ ({"A", "E"} \subseteq flags /\ Len(names) = 1) =>
                   /\ comm_find(communities'.head, names[1]) # 0
                   /\ Len(sent') >= 1
                   /\ sent'[Len(sent')].buf[1] = "ADV"
                   /\ sent'[Len(sent')].to = sender
                   /\ \A k \in 1..(Len(sent') - 1) :
                         /\ sent'[k].buf[1] = "ADV"
                         /\ SeqHas(supernodes, sent'[k].to)
                         /\ comm_find(communities.head, names[1]) = 0]_vars

\* The number of siblings known to host a community: the sn_num of its entry
\* in the list, 0 when it has none.
KnownHosts(list, name) ==
    IF comm_find(list, name) = 0 THEN 0 ELSE list[comm_find(list, name)].sn_num

\* The communities of the list that no sibling is known to host: those the
\* supernode hosts alone.
HostedAlone(list) == {i \in 1..Len(list) : list[i].sn_num = 0}

\* C27: once READY the supernode hosts at most N2N_MAX_COMM_PER_SN
\* communities; and a community joins the hosted ones, at the end of the
\* discovery or by the request of an edge, only if fewer than
\* N2N_MIN_SN_PER_COMM siblings are known to host it.
C27_CommunityCaps ==
    /\ [](snm_discovery_state = "READY" =>
            Cardinality(HostedAlone(communities.head)) <= N2N_MAX_COMM_PER_SN)
    /\ [][/\ (/\ pc = "top"
              /\ snm_discovery_state = "DISCOVERY"
              /\ snm_discovery_state' = "READY") =>
                \A i \in 1..Len(communities'.head) :
                    LET name == communities'.head[i].name IN
                    comm_find(communities.persist, name) = 0 =>
                        KnownHosts(communities.head, name) < N2N_MIN_SN_PER_COMM
          /\ (SnReceivesNext("REQ") /\ snm_discovery_state = "READY") =>
                \A i \in 1..Len(communities'.head) :
                    LET name == communities'.head[i].name IN
                    comm_find(communities.head, name) = 0 =>
                        /\ {"A", "E"} \subseteq rx'.buf[2]
                        /\ KnownHosts(communities.head, name)
                             < N2N_MIN_SN_PER_COMM]_vars

\* The sends of the last step that wrote the whole datagram.
FullSends == Cardinality({k \in 1..Len(sent) : sent[k].res = "full"})

\* C28: a unicast forward adds one to fwd when the whole frame is written
\* and one to errors otherwise; each recipient of a broadcast adds one to
\* broadcast or one to errors in the same way; so fwd + broadcast never
\* exceeds the number of forward attempts, every attempt is in one of the
\* three counters, and errors, fwd, broadcast and reg_super never decrease.
C28_ForwardAccounting ==
    /\ (Dispatched("PACKET") \/ Dispatched("REGISTER")) =>
          IF UnicastDst \notin MulticastMacs
          THEN /\ Len(sent) <= 1
               /\ stats.fwd = prev.stats.fwd + FullSends
               /\ stats.errors = prev.stats.errors + (Len(sent) - FullSends)
               /\ stats.broadcast = prev.stats.broadcast
          ELSE /\ stats.broadcast = prev.stats.broadcast + FullSends
               /\ stats.errors = prev.stats.errors + (Len(sent) - FullSends)
               /\ stats.fwd = prev.stats.fwd
    /\ stats.fwd + stats.broadcast <= attempts
    /\ attempts <= stats.fwd + stats.broadcast + stats.errors
    /\ stats.errors >= prev.stats.errors
    /\ stats.fwd >= prev.stats.fwd
    /\ stats.broadcast >= prev.stats.broadcast
    /\ stats.reg_super >= prev.stats.reg_super

\* C28 witness: a broadcast to two edges of which one send is short, after
\* which broadcast and errors have one each.
C28_Witness ==
    /\ Dispatched("PACKET")
    /\ rx.buf[7] \in MulticastMacs
    /\ Len(sent) = 2
    /\ FullSends = 1
    /\ stats.broadcast = prev.stats.broadcast + 1
    /\ stats.errors = prev.stats.errors + 1
    /\ attempts = 2

\* The records the frames of the last step went to: the record of the
\* destination MAC for a unicast PACKET or REGISTER, the records of the
\* community other than the source's for a PACKET to all, none when nothing
\* was sent.
ForwardTargets ==
    IF sent = <<>> THEN {}
    ELSE IF UnicastDst \notin MulticastMacs
    THEN {find_peer_by_mac(edges, UnicastDst)}
    ELSE BroadcastTargets

\* The longest time one select() takes.
LongestSelect == CHOOSE d \in Elapsed : \A e \in Elapsed : e <= d

\* C29: no PACKET or REGISTER is forwarded or broadcast to a record that is
\* beyond the purge horizon when the frame is sent.
C29_NoSendToExpired ==
    (Dispatched("PACKET") \/ Dispatched("REGISTER")) =>
        \A i \in ForwardTargets : ~Expired(edges[i])

\* C29 as the code has it: the sweep comes after the dispatch, so a frame may
\* go to a record that went beyond the horizon while select() was waiting,
\* though by no more than the time of one select(); once the sweep of the
\* iteration is done no record is beyond the horizon.
C29_SendWithinOneSelect ==
    /\ (Dispatched("PACKET") \/ Dispatched("REGISTER")) =>
          \A i \in ForwardTargets :
              clock - edges[i].last_seen <= REGISTRATION_TIMEOUT + LongestSelect
    /\ pc = "select" => \A i \in 1..Len(edges) : ~Expired(edges[i])

\* C29 witness: a frame has been sent to a record that is beyond the horizon.
C29_Witness ==
    /\ Dispatched("PACKET")
    /\ Len(sent) = 1
    /\ \E i \in ForwardTargets : Expired(edges[i])

\* C30: while the loop runs, an edge whose REGISTER_SUPER (TTL >= 1) is
\* handled at least once in every advertised lifetime keeps its record: the
\* sweep never removes it, the record's socket is the one observed at the
\* most recent REGISTER_SUPER, and every unicast PACKET with TTL >= 1 for
\* its MAC causes one send, to that socket.
C30_KeptAlive ==
    (pc # "stopped" /\ stats.reg_super > 0) =>
        /\ RecordsOf(edges, MacA) # {}
        /\ IF Dispatched("REGISTER_SUPER")
           THEN \A i \in RecordsOf(edges, MacA) :
                   edges[i].sock = ObservedSock(rx.sender)
           ELSE \A i \in RecordsOf(edges, MacA) :
                   \E j \in RecordsOf(prev.edges, MacA) :
                       edges[i].sock = prev.edges[j].sock
        /\ (Dispatched("PACKET") /\ rx.buf[7] = MacA) =>
              /\ Len(sent) = 1
              /\ \A i \in RecordsOf(edges, MacA) :
                    edges[i].sock = ObservedSock(sent[1].to)

\* C30 witness: a PACKET is forwarded to the socket of the second
\* registration a full lifetime after it, two ticks into the run.
C30_Witness ==
    /\ Dispatched("PACKET")
    /\ rx.buf[7] = MacA
    /\ Len(sent) = 1
    /\ sent[1].to = SenderB
    /\ stats.reg_super = 2
    /\ clock >= 2
    /\ clock - stats.last_reg_super = LifetimeTicks

====
